---- MODULE Spec2Model ----
(***************************************************************************)
(* Model of assignment-1/plot_benchmarks.py: a linear script that reads    *)
(* benchmark_results.csv row by row into two tables (data, baselines),     *)
(* sorts every series, and then draws four charts from the tables.         *)
(*                                                                         *)
(* Python floats are modelled as binary floating-point numbers with a      *)
(* significand of MantBits bits and round-to-nearest-even (IEEE 754; a     *)
(* double has 53 bits), an unbounded exponent, written as a fraction       *)
(* <<numerator, denominator>> in lowest terms.  NaN, infinities and        *)
(* negative numbers are outside the input sets.                            *)
(***************************************************************************)
EXTENDS Integers, Sequences, FiniteSets, TLC

\* ------------------------------------------------------------------ bounds
\* Largest number of data rows of the CSV file.
MaxRows == 4
\* Width of the significand of a float of the model, in bits.
MantBits == 3

\* ------------------------------------------------- the rows a file can hold
Row(key, threads, time_seconds) ==
  [version |-> key[1], threads |-> threads,
   time_seconds |-> time_seconds, baseline |-> key[2]]

\* Sequential runs: (version, baseline, time_seconds) of the rows with
\* threads = 1.  The times are decimal numbers, here whole seconds.
SequentialRuns ==
  { <<"sequential", "ptr", 3>>,
    <<"sequential", "ptr", 7>>,
    <<"sequential_flat", "flat", 7>> }

\* Parallel runs: (version, baseline) and (threads, time_seconds) of the other
\* rows.  A thread count or a time of 0 parses like any other number.
ParallelKeys == { <<"version1_parallel_for", "ptr">>, <<"novel_tiled", "novel">> }
ParallelSamples == { <<2, 3>>, <<2, 7>>, <<4, 3>>, <<0, 0>> }

CsvRows ==
  { Row(<<r[1], r[2]>>, 1, r[3]) : r \in SequentialRuns }
    \cup { Row(k, s[1], s[2]) : k \in ParallelKeys, s \in ParallelSamples }

\* ------------------------------------------------------------ float numbers
RECURSIVE GCD(_, _)
GCD(a, b) == IF b = 0 THEN a ELSE GCD(b, a % b)

Norm(n, d) == LET g == GCD(n, d) IN <<n \div g, d \div g>>

RECURSIVE Pow2(_)
Pow2(k) == IF k = 0 THEN 1 ELSE 2 * Pow2(k - 1)

\* n/d rounded to the nearest integer, ties to even.
RoundHalfEven(n, d) ==
  LET q == n \div d
      r == n % d
  IN  IF 2 * r < d THEN q
      ELSE IF 2 * r > d THEN q + 1
      ELSE IF q % 2 = 0 THEN q ELSE q + 1

\* A significand is an integer m with MinSig <= m < MaxSig.
MinSig == Pow2(MantBits - 1)
MaxSig == Pow2(MantBits)

\* n/d (n >= 0, d > 0) rounded to the nearest float: scale by a power of two
\* into the range of the significands, round there, and scale back.
RECURSIVE FRound(_, _)
FRound(n, d) ==
  IF n = 0 THEN <<0, 1>>
  ELSE IF n < MinSig * d
         THEN LET r == FRound(2 * n, d) IN Norm(r[1], 2 * r[2])
  ELSE IF n >= MaxSig * d
         THEN LET r == FRound(n, 2 * d) IN Norm(2 * r[1], r[2])
  ELSE <<RoundHalfEven(n, d), 1>>

\* float(text) of a decimal field, and the float of an int operand.
ParseFloat(n) == FRound(n, 1)
FromInt(i) == FRound(i, 1)

FZero == <<0, 1>>
FDiv(x, y) == FRound(x[1] * y[2], x[2] * y[1])
FMul(x, y) == FRound(x[1] * y[1], x[2] * y[2])
FLess(x, y) == x[1] * y[2] < y[1] * x[2]
FLeq(x, y) == x[1] * y[2] <= y[1] * x[2]

\* ------------------------------------------------------------------- state
VARIABLES
  pc,         \* position of the script
  rows,       \* the rows of the file read so far, in file order
  data,       \* {(version, baseline): [(threads, time), ...]}
  baselines,  \* {baseline_key: sequential_time}
  charts,     \* what has been drawn: one record per finished figure
  io,         \* directories made, files written and lines printed, in order
  err         \* the exception that ended the run, or "none"

vars == <<pc, rows, data, baselines, charts, io, err>>

\* The empty dict.
EmptyDict == [k \in {} |-> 0]

Init ==
  /\ pc = "read"
  /\ rows = <<>>
  /\ data = EmptyDict
  /\ baselines = EmptyDict
  /\ charts = <<>>
  /\ io = <<>>
  /\ err = "none"

\* ------------------------------------------------------------ Read CSV loop
\* A variant of SetBaseline that keeps the first time seen for a baseline
\* (baselines.setdefault(baseline, time)).
SetBaselineKeepFirst(b, baseline, time) ==
  [k \in DOMAIN b \cup {baseline} |-> IF k \in DOMAIN b THEN b[k] ELSE time]

\* baselines[baseline] = time
SetBaseline(b, baseline, time) ==
  [k \in DOMAIN b \cup {baseline} |-> IF k = baseline THEN time ELSE b[k]]

\* data.setdefault(key, []).append((threads, time))
AppendPoint(d, key, threads, time) ==
  [k \in DOMAIN d \cup {key} |->
     IF k = key
       THEN Append(IF key \in DOMAIN d THEN d[key] ELSE <<>>, <<threads, time>>)
       ELSE d[k]]

\* Variants of IsBaselineRow: "threads <= 1" and "threads == 0".
IsBaselineRowAtMostOne(threads) == threads <= 1
IsBaselineRowZero(threads) == threads = 0

\* if threads == 1
IsBaselineRow(threads) == threads = 1

\* One iteration of "for row in reader".
ReadRow ==
  /\ pc = "read"
  /\ Len(rows) < MaxRows
  /\ \E row \in CsvRows :
       LET version  == row.version
           threads  == row.threads
           time     == ParseFloat(row.time_seconds)
           baseline == row.baseline
       IN  /\ rows' = Append(rows, row)
           /\ IF IsBaselineRow(threads)
                THEN /\ baselines' = SetBaseline(baselines, baseline, time)
                     /\ data' = data
                ELSE /\ data' = AppendPoint(data, <<version, baseline>>, threads, time)
                     /\ baselines' = baselines
  /\ UNCHANGED <<pc, charts, io, err>>

\* ----------------------------------------------------------------- sorting
\* (threads, time) tuples compare lexicographically.
PointLess(p, q) == p[1] < q[1] \/ (p[1] = q[1] /\ FLess(p[2], q[2]))

RECURSIVE Insert(_, _)
Insert(s, p) ==
  IF s = <<>> THEN <<p>>
  ELSE IF PointLess(p, Head(s)) THEN <<p>> \o s
  ELSE <<Head(s)>> \o Insert(Tail(s), p)

\* A variant of SortPoints that orders by time alone.
RECURSIVE InsertByTime(_, _)
InsertByTime(s, p) ==
  IF s = <<>> THEN <<p>>
  ELSE IF FLess(p[2], Head(s)[2]) THEN <<p>> \o s
  ELSE <<Head(s)>> \o InsertByTime(Tail(s), p)

RECURSIVE SortPointsByTime(_)
SortPointsByTime(s) ==
  IF s = <<>> THEN <<>>
  ELSE InsertByTime(SortPointsByTime(SubSeq(s, 1, Len(s) - 1)), s[Len(s)])

\* list.sort(): the ascending permutation (equal tuples are indistinguishable).
RECURSIVE SortPoints(_)
SortPoints(s) ==
  IF s = <<>> THEN <<>>
  ELSE Insert(SortPoints(SubSeq(s, 1, Len(s) - 1)), s[Len(s)])

\* End of file: "for key in data: data[key].sort()", then os.makedirs.
SortSeries ==
  /\ pc = "read"
  /\ data' = [k \in DOMAIN data |-> SortPoints(data[k])]
  /\ io' = Append(io, <<"mkdir", "charts">>)
  /\ pc' = "plot1"
  /\ UNCHANGED <<rows, baselines, charts, err>>

\* ------------------------------------------------------- the four figures
\* The versions_baseline, filename and baseline_key arguments of the three
\* plot_group calls.

\* A variant of OriginalGroup called with baseline_key "flat".
OriginalGroupFlatKey ==
  [versions_baseline |-> << <<"version1_parallel_for", "ptr">>,
                            <<"version2_sections", "ptr">>,
                            <<"version3_combined", "ptr">> >>,
   filename |-> "charts/speedup_original.png",
   baseline_key |-> "flat"]

OriginalGroup ==
  [versions_baseline |-> << <<"version1_parallel_for", "ptr">>,
                            <<"version2_sections", "ptr">>,
                            <<"version3_combined", "ptr">> >>,
   filename |-> "charts/speedup_original.png",
   baseline_key |-> "ptr"]

\* A variant of OptimizedGroup called with baseline_key "ptr".
OptimizedGroupPtrKey ==
  [versions_baseline |-> << <<"version1_optimized", "flat">>,
                            <<"version2_optimized", "flat">>,
                            <<"version3_optimized", "flat">> >>,
   filename |-> "charts/speedup_optimized.png",
   baseline_key |-> "ptr"]

OptimizedGroup ==
  [versions_baseline |-> << <<"version1_optimized", "flat">>,
                            <<"version2_optimized", "flat">>,
                            <<"version3_optimized", "flat">> >>,
   filename |-> "charts/speedup_optimized.png",
   baseline_key |-> "flat"]

\* A variant of NovelGroup that saves under the name of the second figure.
NovelGroupOptimizedFile ==
  [versions_baseline |-> << <<"novel_simd_avx2", "novel">>,
                            <<"novel_omp_simd", "novel">>,
                            <<"novel_tiled", "novel">>,
                            <<"novel_tasks", "novel">>,
                            <<"novel_branchless", "novel">>,
                            <<"novel_ultimate", "novel">> >>,
   filename |-> "charts/speedup_optimized.png",
   baseline_key |-> "flat"]

NovelGroup ==
  [versions_baseline |-> << <<"novel_simd_avx2", "novel">>,
                            <<"novel_omp_simd", "novel">>,
                            <<"novel_tiled", "novel">>,
                            <<"novel_tasks", "novel">>,
                            <<"novel_branchless", "novel">>,
                            <<"novel_ultimate", "novel">> >>,
   filename |-> "charts/speedup_novel.png",
   baseline_key |-> "flat"]

\* (version, bl) of best_versions.
BestVersions ==
  << <<"version1_parallel_for", "ptr">>,
     <<"version1_optimized", "flat">>,
     <<"novel_simd_avx2", "novel">>,
     <<"novel_tiled", "novel">>,
     <<"novel_ultimate", "novel">> >>

TimeComparisonFile == "charts/time_comparison.png"
SuccessMessage == "All charts generated successfully!"
DefaultTicks == <<2, 4, 8, 16>>

\* threads = [t for t, _ in pts]
ThreadsOf(pts) == [i \in 1..Len(pts) |-> pts[i][1]]

\* times = [time for _, time in pts]
TimesOf(pts) == [i \in 1..Len(pts) |-> pts[i][2]]

\* A variant of Speedups with the quotient inverted (time / base_time).
SpeedupsInverted(base_time, pts) ==
  [i \in 1..Len(pts) |-> FDiv(pts[i][2], base_time)]

\* speedups = [base_time / time for _, time in pts]
Speedups(base_time, pts) == [i \in 1..Len(pts) |-> FDiv(base_time, pts[i][2])]

\* effs = [sp / t for sp, t in zip(speedups, threads)]
Effs(speedups, threads) ==
  [i \in 1..(IF Len(speedups) < Len(threads) THEN Len(speedups) ELSE Len(threads)) |->
     FDiv(speedups[i], FromInt(threads[i]))]

\* A float division by 0.0, or by the int 0, raises ZeroDivisionError.
RaisesZeroDivision(pts) ==
  \E i \in 1..Len(pts) : pts[i][2] = FZero \/ FromInt(pts[i][1]) = FZero

\* The keys of the list that pass "if key not in data: continue", in order.
Present(keys, d) == SelectSeq(keys, LAMBDA key : key \in DOMAIN d)

\* sorted(threads_set)
RECURSIVE SortedList(_)
SortedList(S) ==
  IF S = {} THEN <<>>
  ELSE LET m == CHOOSE x \in S : \A y \in S : x <= y
       IN  <<m>> \o SortedList(S \ {m})

\* t_range = sorted(threads_set) if threads_set else [2, 4, 8, 16]
TRange(threads_set) ==
  IF threads_set # {} THEN SortedList(threads_set) ELSE DefaultTicks

\* The two lines plot_group draws for one series: (threads, speedups) on the
\* left axes and (threads, effs) on the right.
GroupLine(key, base_time, pts) ==
  LET threads  == ThreadsOf(pts)
      speedups == Speedups(base_time, pts)
  IN  [key |-> key, threads |-> threads, speedups |-> speedups,
       effs |-> Effs(speedups, threads)]

Saved(filename) == << <<"savefig", filename>>, <<"print", "Saved", filename>> >>

\* plot_group(versions_baseline, title, filename, baseline_key).
PlotGroup(g, next) ==
  IF g.baseline_key \notin DOMAIN baselines
    THEN \* base_time = baselines[baseline_key]
         /\ pc' = "failed"
         /\ err' = "KeyError"
         /\ UNCHANGED <<rows, data, baselines, charts, io>>
    ELSE LET base_time == baselines[g.baseline_key]
             keys      == Present(g.versions_baseline, data)
         IN  IF \E i \in 1..Len(keys) : RaisesZeroDivision(data[keys[i]])
               THEN /\ pc' = "failed"
                    /\ err' = "ZeroDivisionError"
                    /\ UNCHANGED <<rows, data, baselines, charts, io>>
               ELSE LET lines == [i \in 1..Len(keys) |->
                                    GroupLine(keys[i], base_time, data[keys[i]])]
                        threads_set == UNION { {lines[i].threads[j] :
                                                  j \in 1..Len(lines[i].threads)} :
                                               i \in 1..Len(lines) }
                    IN  /\ charts' = Append(charts,
                               [filename |-> g.filename,
                                baseline_key |-> g.baseline_key,
                                lines |-> lines,
                                ticks |-> TRange(threads_set)])
                        /\ io' = io \o Saved(g.filename)
                        /\ pc' = next
                        /\ UNCHANGED <<rows, data, baselines, err>>

\* Plot 1: Original versions
PlotOriginal == pc = "plot1" /\ PlotGroup(OriginalGroup, "plot2")

\* Plot 2: Optimized versions
PlotOptimized == pc = "plot2" /\ PlotGroup(OptimizedGroup, "plot3")

\* Plot 3: Novel approaches
PlotNovel == pc = "plot3" /\ PlotGroup(NovelGroup, "plot4")

\* int(np.argmin(times)): the first index of the smallest element (from 1).
RECURSIVE ArgMinFrom(_, _, _)
ArgMinFrom(times, i, best) ==
  IF i > Len(times) THEN best
  ELSE ArgMinFrom(times, i + 1, IF FLess(times[i], times[best]) THEN i ELSE best)

\* A variant of ArgMin that returns the last index of the smallest element.
RECURSIVE ArgMinLastFrom(_, _, _)
ArgMinLastFrom(times, i, best) ==
  IF i > Len(times) THEN best
  ELSE ArgMinLastFrom(times, i + 1, IF FLeq(times[i], times[best]) THEN i ELSE best)

ArgMinLast(times) == ArgMinLastFrom(times, 2, 1)

ArgMin(times) == ArgMinFrom(times, 2, 1)

\* The line and the annotation the time chart draws for one series.
TimeLine(key, pts) ==
  LET threads == ThreadsOf(pts)
      times   == TimesOf(pts)
      idx     == ArgMin(times)
  IN  [key |-> key, threads |-> threads, times |-> times,
       idx |-> idx, xy |-> <<threads[idx], times[idx]>>]

\* A variant of PlotTimeComparison that takes each series out of the table
\* as it plots it (pts = data.pop(key)).
PlotTimeComparisonPop ==
  /\ pc = "plot4"
  /\ LET keys  == Present(BestVersions, data)
         lines == [i \in 1..Len(keys) |-> TimeLine(keys[i], data[keys[i]])]
     IN  /\ data' = [k \in DOMAIN data \ {keys[i] : i \in 1..Len(keys)} |-> data[k]]
         /\ charts' = Append(charts,
               [filename |-> TimeComparisonFile,
                lines |-> lines,
                seq_time |-> baselines["ptr"],
                ticks |-> DefaultTicks])
         /\ io' = io \o Saved(TimeComparisonFile) \o << <<"print", SuccessMessage>> >>
         /\ pc' = "done"
         /\ UNCHANGED <<rows, baselines, err>>

\* Plot 4: Absolute time, and the last print of the script.
PlotTimeComparison ==
  /\ pc = "plot4"
  /\ LET keys  == Present(BestVersions, data)
         lines == [i \in 1..Len(keys) |-> TimeLine(keys[i], data[keys[i]])]
     IN  IF "ptr" \notin DOMAIN baselines
           THEN \* seq_time = baselines["ptr"]
                /\ pc' = "failed"
                /\ err' = "KeyError"
                /\ UNCHANGED <<rows, data, baselines, charts, io>>
           ELSE /\ charts' = Append(charts,
                      [filename |-> TimeComparisonFile,
                       lines |-> lines,
                       seq_time |-> baselines["ptr"],
                       ticks |-> DefaultTicks])
                /\ io' = io \o Saved(TimeComparisonFile)
                           \o << <<"print", SuccessMessage>> >>
                /\ pc' = "done"
                /\ UNCHANGED <<rows, data, baselines, err>>

\* ======================================================== properties checked
\* The (version, baseline) key and the (threads, time) pair of a row.
RowKey(r) == <<r.version, r.baseline>>
ParsedTime == [n \in {r.time_seconds : r \in CsvRows} |-> ParseFloat(n)]
RowPoint(r) == <<r.threads, ParsedTime[r.time_seconds]>>

\* Indices of the rows read so far that went to a series / to the baselines.
SeriesRows == {i \in 1..Len(rows) : rows[i].threads # 1}
BaselineRows == {i \in 1..Len(rows) : rows[i].threads = 1}

SeriesOf(key) == IF key \in DOMAIN data THEN data[key] ELSE <<>>
CountIn(s, x) == Cardinality({i \in 1..Len(s) : s[i] = x})

\* The (threads, time) pairs of the rows of the file with threads # 1 and the
\* given (version, baseline), in file order.
PointsInFile(key) ==
  LET rs == SelectSeq(rows, LAMBDA r : r.threads # 1 /\ RowKey(r) = key)
  IN  [j \in 1..Len(rs) |-> RowPoint(rs[j])]

\* s and t hold the same entries with the same multiplicities.
SameEntries(s, t) ==
  /\ Len(s) = Len(t)
  /\ \A j \in 1..Len(s) : CountIn(s, s[j]) = CountIn(t, s[j])

ReadingDone == pc # "read"

\* C1: whatever rows the reading loop has processed, the rows are partitioned:
\* a row with threads = 1 is in no series; every other row is, with its
\* multiplicity, the pair (threads, time) in the series of its own
\* (version, baseline) and in no other, so that the series hold as many
\* entries as there are rows with threads # 1.
C1_RowsPartitioned ==
  /\ DOMAIN data = {RowKey(rows[i]) : i \in SeriesRows}
  /\ \A key \in DOMAIN data : SameEntries(data[key], PointsInFile(key))

\* The loop is over, the file held a sequential row, the same parallel row
\* twice and a parallel row of another key.
C1_Witness ==
  /\ ReadingDone
  /\ BaselineRows # {}
  /\ \E i, j \in SeriesRows : i # j /\ rows[i] = rows[j]
  /\ \E i, j \in SeriesRows : RowKey(rows[i]) # RowKey(rows[j])

\* C2: after the sort step every series is in ascending order of thread count,
\* entries of equal thread count in ascending order of time, and holds exactly
\* the entries the reading loop appended, whatever the order of the rows.
C2_SeriesSorted ==
  ReadingDone =>
    \A key \in DOMAIN data :
      /\ \A i \in 1..(Len(data[key]) - 1) :
           \/ data[key][i][1] < data[key][i + 1][1]
           \/ /\ data[key][i][1] = data[key][i + 1][1]
              /\ FLeq(data[key][i][2], data[key][i + 1][2])
      /\ SameEntries(data[key], PointsInFile(key))

\* Position in the file of the rows of a key that went to its series.
FileOrder(key) == {i \in SeriesRows : RowKey(rows[i]) = key}

\* The sort had work to do: rows of one key came in descending thread count,
\* and two of them had the same thread count and different times.
C2_Witness ==
  /\ ReadingDone
  /\ \E key \in DOMAIN data :
       /\ \E i, j \in FileOrder(key) : i < j /\ rows[i].threads > rows[j].threads
       /\ \E i, j \in FileOrder(key) :
            rows[i].threads = rows[j].threads /\ rows[i].time_seconds # rows[j].time_seconds

\* C3: after the reading loop a baseline name is a key of the baseline table
\* exactly when a row with threads = 1 carries it, and its value is the time of
\* the last such row of the file.
C3_BaselineIsLastSequentialRow ==
  /\ DOMAIN baselines = {rows[i].baseline : i \in BaselineRows}
  /\ \A b \in DOMAIN baselines :
       LET last == CHOOSE i \in BaselineRows :
                     /\ rows[i].baseline = b
                     /\ \A j \in BaselineRows : rows[j].baseline = b => j <= i
       IN  baselines[b] = ParsedTime[rows[last].time_seconds]

\* The loop is over; one baseline name came twice with different times, and a
\* baseline name of the file never came with threads = 1.
C3_Witness ==
  /\ ReadingDone
  /\ \E i, j \in BaselineRows :
       /\ i < j
       /\ rows[i].baseline = rows[j].baseline
       /\ rows[i].time_seconds # rows[j].time_seconds
  /\ \E i \in SeriesRows : rows[i].baseline \notin DOMAIN baselines

\* Indices of the figures drawn by plot_group / by the time-comparison block.
GroupCharts == {i \in 1..Len(charts) : charts[i].filename # TimeComparisonFile}
TimeCharts == {i \in 1..Len(charts) : charts[i].filename = TimeComparisonFile}

\* The j-th point of a plotted line is the j-th entry of its series, with the
\* float quotients base_time / time and speedup / threads.
C4_Quotients(ln, base_time, pts) ==
  /\ Len(ln.threads) = Len(pts)
  /\ Len(ln.speedups) = Len(pts)
  /\ Len(ln.effs) = Len(pts)
  /\ \A j \in 1..Len(pts) :
       /\ ln.threads[j] = pts[j][1]
       /\ ln.speedups[j] = FDiv(base_time, pts[j][2])
       /\ ln.effs[j] = FDiv(ln.speedups[j], FromInt(ln.threads[j]))

\* The products give the operands back: speedup * time = base_time and
\* efficiency * threads = speedup, in float arithmetic.
C4_Products(ln, base_time, pts) ==
  \A j \in 1..Len(pts) :
    /\ FMul(ln.speedups[j], pts[j][2]) = base_time
    /\ FMul(ln.effs[j], FromInt(ln.threads[j])) = ln.speedups[j]

\* C4 as stated: every plotted speedup is baselines[baseline_key] / time and
\* every efficiency speedup / threads, paired by index with the thread counts
\* of the sorted series, and equivalently speedup * time = base_time and
\* efficiency * threads = speedup.
C4_QuotientsAndProducts ==
  \A i \in GroupCharts : \A l \in 1..Len(charts[i].lines) :
    LET ln == charts[i].lines[l]
    IN  /\ C4_Quotients(ln, baselines[charts[i].baseline_key], data[ln.key])
        /\ C4_Products(ln, baselines[charts[i].baseline_key], data[ln.key])

\* C4, amended: every plotted speedup is the float quotient
\* baselines[baseline_key] / time and every efficiency the float quotient
\* speedup / threads, the j-th of each paired with the j-th thread count of the
\* sorted series.
C4_PlottedQuotients ==
  \A i \in GroupCharts : \A l \in 1..Len(charts[i].lines) :
    LET ln == charts[i].lines[l]
    IN  C4_Quotients(ln, baselines[charts[i].baseline_key], data[ln.key])

\* A figure shows a line of two points with different thread counts.
C4_Witness ==
  \E i \in GroupCharts : \E l \in 1..Len(charts[i].lines) :
    LET ln == charts[i].lines[l]
    IN  /\ Len(ln.threads) >= 2
        /\ ln.threads[1] # ln.threads[2]
        /\ ln.speedups[1] # ln.speedups[2]

\* The files saved so far, in order.
SavedFiles ==
  LET w == SelectSeq(io, LAMBDA e : e[1] = "savefig")
  IN  [i \in 1..Len(w) |-> w[i][2]]

FourFiles ==
  << "charts/speedup_original.png", "charts/speedup_optimized.png",
     "charts/speedup_novel.png", "charts/time_comparison.png" >>

HasBaseline(b) == \E i \in BaselineRows : rows[i].baseline = b
Terminated == pc \in {"done", "failed"}

\* The file has a sequential row for "ptr" and one for "flat", and its other
\* rows have a nonzero time and a nonzero thread count.
C5_Pre ==
  /\ HasBaseline("ptr")
  /\ HasBaseline("flat")
  /\ \A i \in SeriesRows : rows[i].threads # 0 /\ rows[i].time_seconds # 0

\* C5: a run on such a file ends having saved exactly the four image files, in
\* the order original, optimized, novel, time_comparison; the success message
\* is printed last, after the fourth file; a group none of whose series is in
\* the file is still saved, with the thread ticks [2, 4, 8, 16].
C5_FourFilesThenSuccess ==
  /\ (Terminated /\ C5_Pre) => pc = "done"
  /\ pc = "done" =>
       /\ SavedFiles = FourFiles
       /\ io[Len(io)] = <<"print", SuccessMessage>>
       /\ io[Len(io) - 2] = <<"savefig", TimeComparisonFile>>
  /\ \A k \in 1..Len(io) :
       io[k] = <<"print", SuccessMessage>> =>
         /\ k = Len(io)
         /\ SavedFiles = FourFiles
  /\ \A i \in GroupCharts :
       charts[i].lines = <<>> => charts[i].ticks = DefaultTicks

\* A finished run in which one group had a series and another had none.
C5_Witness ==
  /\ pc = "done"
  /\ C5_Pre
  /\ \E i \in GroupCharts : charts[i].lines = <<>>
  /\ \E i \in GroupCharts : charts[i].lines # <<>>

Sorted(s) ==
  \A i \in 1..(Len(s) - 1) : s[i] = s[i + 1] \/ PointLess(s[i], s[i + 1])

\* C6: the run is a strict pipeline: a figure is drawn only once the reading
\* loop is over and every series is sorted, and from the end of the sort step
\* on no row is read and neither table changes.
C6_Pipeline ==
  [][ /\ charts' # charts =>
           /\ ReadingDone
           /\ \A key \in DOMAIN data : Sorted(data[key])
      /\ ReadingDone => /\ rows' = rows
                        /\ data' = data
                        /\ baselines' = baselines ]_vars

\* All four figures are drawn and the table holds a series that was plotted.
C6_Witness ==
  /\ pc = "done"
  /\ Len(charts) = 4
  /\ \E i \in TimeCharts : charts[i].lines # <<>>

\* C7: in the absolute-time figure the annotated point of every line is the
\* best time of its series: no time of the series is smaller, every earlier
\* point has a larger time, and so it has the smallest thread count among the
\* points of the best time.
C7_AnnotatedIsFirstMinimum ==
  \A i \in TimeCharts : \A l \in 1..Len(charts[i].lines) :
    LET ln  == charts[i].lines[l]
        pts == data[ln.key]
    IN  /\ ln.threads = ThreadsOf(pts)
        /\ ln.times = TimesOf(pts)
        /\ ln.idx \in 1..Len(pts)
        /\ ln.xy = pts[ln.idx]
        /\ \A j \in 1..Len(pts) :
             /\ FLeq(pts[ln.idx][2], pts[j][2])
             /\ j < ln.idx => FLess(pts[ln.idx][2], pts[j][2])
             /\ pts[j][2] = pts[ln.idx][2] => pts[ln.idx][1] <= pts[j][1]

\* A line of the figure has its best time at two different thread counts.
C7_Witness ==
  \E i \in TimeCharts : \E l \in 1..Len(charts[i].lines) :
    LET ln == charts[i].lines[l]
    IN  \E j \in 1..Len(ln.times) :
          /\ j # ln.idx
          /\ ln.times[j] = ln.times[ln.idx]
          /\ ln.threads[j] # ln.threads[ln.idx]

\* C8 as stated: every series plot_group plots is computed against the
\* baseline of its own baseline name: baseline_key is the bl of every
\* (version, bl) of the call.
C8_OwnBaselineInEveryCall ==
  \A i \in GroupCharts : \A l \in 1..Len(charts[i].lines) :
    charts[i].lines[l].key[2] = charts[i].baseline_key

\* C8, amended: in the first two calls baseline_key is the bl of every series
\* plotted ("ptr", "flat"); in the third call every series has bl "novel" and
\* is computed against baselines["flat"].
C8_OwnBaselineExceptNovel ==
  \A i \in GroupCharts :
    LET c == charts[i]
    IN  /\ c.filename = "charts/speedup_original.png" =>
             /\ c.baseline_key = "ptr"
             /\ \A l \in 1..Len(c.lines) : c.lines[l].key[2] = "ptr"
        /\ c.filename = "charts/speedup_optimized.png" =>
             /\ c.baseline_key = "flat"
             /\ \A l \in 1..Len(c.lines) : c.lines[l].key[2] = "flat"
        /\ c.filename = "charts/speedup_novel.png" =>
             /\ c.baseline_key = "flat"
             /\ \A l \in 1..Len(c.lines) : c.lines[l].key[2] = "novel"
        /\ \A l \in 1..Len(c.lines) :
             c.lines[l].speedups[1]
               = FDiv(baselines[c.baseline_key], data[c.lines[l].key][1][2])

\* The first and the third figure each show a series.
C8_Witness ==
  /\ \E i \in GroupCharts :
       charts[i].filename = "charts/speedup_original.png" /\ charts[i].lines # <<>>
  /\ \E i \in GroupCharts :
       charts[i].filename = "charts/speedup_novel.png" /\ charts[i].lines # <<>>

\* The series plot_group goes through, and whether one of them holds an entry
\* with time 0 or thread count 0.
GroupKeys(g) == {g.versions_baseline[i] : i \in 1..Len(g.versions_baseline)}
ZeroEntryIn(keys) ==
  \E key \in keys \cap DOMAIN data : \E j \in 1..Len(data[key]) :
    data[key][j][1] = 0 \/ data[key][j][2] = FZero

\* C9 as stated: whatever rows the file holds, computing the speedups and the
\* efficiencies in plot_group never divides by zero (the entries of a series
\* having, according to the claim, a thread count >= 2 and a time different
\* from 0).
C9_NoZeroDivisor == err # "ZeroDivisionError"

\* C9, amended: every entry of a series has a thread count different from 1;
\* entries with thread count 0 or time 0 are stored like any other, and a run
\* divides by zero only when a series of the three groups holds such an entry.
C9_NoBaselineEntryZeroOnlyFromFile ==
  /\ \A key \in DOMAIN data : \A j \in 1..Len(data[key]) : data[key][j][1] # 1
  /\ \A i \in SeriesRows :
       (rows[i].threads = 0 \/ rows[i].time_seconds = 0) =>
         CountIn(SeriesOf(RowKey(rows[i])), RowPoint(rows[i])) >= 1
  /\ err = "ZeroDivisionError" =>
       ZeroEntryIn(GroupKeys(OriginalGroup) \cup GroupKeys(OptimizedGroup)
                     \cup GroupKeys(NovelGroup))

\* A first figure showed a series with nonzero entries, and a later call
\* divided by zero on a series with an entry of thread count 0 and time 0.
C9_Witness ==
  /\ err = "ZeroDivisionError"
  /\ \E i \in GroupCharts : charts[i].lines # <<>>

\* The first group's rows of the file have nonzero time and thread count.
OriginalRowsNonzero ==
  \A i \in SeriesRows :
    RowKey(rows[i]) \in GroupKeys(OriginalGroup) =>
      rows[i].threads # 0 /\ rows[i].time_seconds # 0

SuccessPrinted == \E k \in 1..Len(io) : io[k] = <<"print", SuccessMessage>>

\* Without a sequential row for "ptr" the run stops in the first plot_group
\* call with no file saved.
C10_NoPtr ==
  (pc \notin {"read", "plot1"} /\ ~HasBaseline("ptr")) =>
    /\ pc = "failed"
    /\ err = "KeyError"
    /\ charts = <<>>
    /\ SavedFiles = <<>>

\* With "ptr" and without "flat" the run stops in the second plot_group call
\* with speedup_original.png alone saved.
C10_NoFlat ==
  /\ pc = "failed"
  /\ err = "KeyError"
  /\ Len(charts) = 1
  /\ SavedFiles = << "charts/speedup_original.png" >>

\* C10 as stated: a missing baseline stops the run at its first use and keeps
\* the files saved before: without "ptr" nothing is saved; with "ptr" and
\* without "flat" speedup_original.png alone is saved and the run stops in the
\* second call; the success message is printed in neither case.
C10_MissingBaselineFatal ==
  /\ C10_NoPtr
  /\ (pc \notin {"read", "plot1", "plot2"} /\ HasBaseline("ptr") /\ ~HasBaseline("flat"))
       => C10_NoFlat
  /\ (~HasBaseline("ptr") \/ ~HasBaseline("flat")) => ~SuccessPrinted

\* C10, amended: as stated, the second case for files whose rows of the first
\* group have nonzero time and thread count.
C10_MissingBaselineFatalNonzero ==
  /\ C10_NoPtr
  /\ (/\ pc \notin {"read", "plot1", "plot2"}
      /\ HasBaseline("ptr") /\ ~HasBaseline("flat")
      /\ OriginalRowsNonzero)
       => C10_NoFlat
  /\ (~HasBaseline("ptr") \/ ~HasBaseline("flat")) => ~SuccessPrinted

\* The run stopped in the second call after saving a first figure with a line.
C10_Witness ==
  /\ C10_NoFlat
  /\ ~HasBaseline("flat")
  /\ charts[1].lines # <<>>

Next ==
  \/ ReadRow
  \/ SortSeries
  \/ PlotOriginal
  \/ PlotOptimized
  \/ PlotNovel
  \/ PlotTimeComparison

Spec == Init /\ [][Next]_vars
====
